---- MODULE Spec2Model ----
(***************************************************************************)
(* Model of bin/build.py: the MgvDataBuilder driver.  main() opens the    *)
(* log, compiles the genome pattern, reads the configuration and, for     *)
(* every genome whose name the pattern matches, runs process(), which     *)
(* visits the datatypes assembly, models, orthology and drives the        *)
(* download, import and deploy collaborators.  The collaborators (the     *)
(* lib package: ConfigFileReader, downloaderNameMap, importerNameMap,     *)
(* Deployer) are opaque calls that either return or raise.                *)
(***************************************************************************)
EXTENDS Naturals, Integers, Sequences, FiniteSets, TLC

VARIABLES
    args,        \* the parsed arguments: genome, phase, type, log_file
    configFile,  \* the genome records the configuration file holds
    cfg,         \* self.cfg, the list ConfigFileReader(...).read() returned
    genome_re,   \* self.genome_re, the compiled pattern (<<>> before compile)
    logfile,     \* self.logfile: "stderr" or "file"
    closed,      \* whether self.logfile has been closed
    opens,       \* number of open() calls made by the driver
    closes,      \* number of self.logfile.close() calls
    log,         \* the entries written to self.logfile, in order; a phase
                 \* entry carries in seq the number of collaborator events
                 \* that had happened when it was written
    calls,       \* collaborator events: construct, begin, return, raise
    downloader,  \* the local variable downloader of process()
    gi,          \* position of the loop "for g in self.cfg"
    ti,          \* position of the loop "for t in self.VALID_TYPES"
    pc,          \* the statement the driver is at
    exc          \* the uncaught exception that ended the run, or None

vars == <<args, configFile, cfg, genome_re, logfile, closed, opens, closes,
          log, calls, downloader, gi, ti, pc, exc>>

None == "None"

\* Bound of the model: the longest configuration (number of genome records).
MaxGenomes == 2

\* a mutant of VALID_TYPES: the datatypes listed in another order
VALID_TYPES_Reordered == <<"models", "assembly", "orthology">>

VALID_TYPES == <<"assembly", "models", "orthology">>
VALID_PHASES == <<"download", "import", "deploy">>

Range(s) == {s[i] : i \in 1..Len(s)}

-----------------------------------------------------------------------------
(* Regular expressions, as far as re.compile('^' + p + '$') and            *)
(* genome_re.match(name) need them.  A pattern is a sequence of tokens:    *)
(* the literals "a" and "b", ".", the postfix "*", "|", "^" and "$".       *)

Literals == {"a", "b"}

\* the maximal "|"-free segments of a pattern: the alternatives of the
\* top-level alternation, which binds weaker than concatenation and anchors
Branches(toks) ==
    {SubSeq(toks, i, j) : <<i, j>> \in
        {<<i, j>> \in (1..Len(toks) + 1) \X (0..Len(toks)) :
            /\ j >= i - 1
            /\ i = 1 \/ toks[i - 1] = "|"
            /\ j = Len(toks) \/ toks[j + 1] = "|"
            /\ \A k \in i..j : toks[k] # "|"}}

\* sre_parse: a "*" needs a repeatable item before it ("nothing to repeat"
\* after the start, "|", "^" or "$"; "multiple repeat" after another "*")
ValidPattern(toks) ==
    \A k \in 1..Len(toks) :
        toks[k] = "*" => (k > 1 /\ toks[k - 1] \in Literals \cup {"."})

CharMatch(c, ch) == IF c = "." THEN ch # "\n" ELSE c = ch

\* "$" without MULTILINE: at the end, or just before a final newline
AtEnd(s, p) == p = Len(s) \/ (p = Len(s) - 1 /\ s[Len(s)] = "\n")

\* the positions of s a branch can reach from the positions P, reading its
\* tokens from the k-th on
RECURSIVE Run(_, _, _, _)
Run(br, k, s, P) ==
    IF k > Len(br) THEN P
    ELSE LET c == br[k]
             starred == k < Len(br) /\ br[k + 1] = "*"
         IN  IF c = "^" THEN Run(br, k + 1, s, {p \in P : p = 0})
             ELSE IF c = "$" THEN Run(br, k + 1, s, {p \in P : AtEnd(s, p)})
             ELSE IF starred
                  THEN Run(br, k + 2, s,
                           {q \in 0..Len(s) : \E p \in P :
                               /\ p <= q
                               /\ \A j \in (p + 1)..q : CharMatch(c, s[j])})
                  ELSE Run(br, k + 1, s,
                           {p + 1 : p \in {q \in P : q < Len(s)
                                                /\ CharMatch(c, s[q + 1])}})

\* pattern.match(s): some alternative matches a prefix of s, from position 0
ReMatch(re, s) == \E br \in Branches(re) : Run(br, 1, s, {0}) # {}

\* the argument of re.compile at line 126: '^' + args.genome + '$'
AnchoredPattern(p) == <<"^">> \o p \o <<"$">>

\* a mutant of Selected: once a genome has been processed no other is
\* selected (the selection depends on the genomes before)
SelectedOnlyFirst(re, name) ==
    ReMatch(re, name) /\ \A n \in 1..Len(log) : log[n].kind # "Processing"

\* whether main selects a genome name: self.genome_re.match(g["name"])
Selected(re, name) == ReMatch(re, name)

-----------------------------------------------------------------------------
(* The inputs.                                                             *)

\* values of -g/--genome; the default is ".*"
Patterns == { <<".", "*">>, <<"a">>, <<"a", "|", "b">>, <<"*">> }

\* the downloader registry lib.Downloader.downloaderNameMap
DownloaderNames == {"UrlDownloader", "EnsemblDownloader"}

\* genome records a configuration file may hold
GenomeRecords ==
    { [name |-> <<"a">>,
       assembly |-> [url |-> "u1", source |-> "UrlDownloader"],
       models |-> [url |-> "u2"]],
      [name |-> <<"b">>,
       assembly |-> [url |-> "u3"]],
      [name |-> <<"a", "b">>,
       assembly |-> [url |-> "u4"],
       models |-> [url |-> "u5", source |-> "NoSuchDownloader"],
       orthology |-> [url |-> "u6"]],
      [name |-> <<"b", "a">>],
      [name |-> <<"b">>,
       assembly |-> [url |-> "u7"],
       models |-> [url |-> "u8", source |-> "EnsemblDownloader"],
       orthology |-> [url |-> "u9"]] }

Configs == UNION {[1..n -> GenomeRecords] : n \in 0..MaxGenomes}

\* what getArgs can return: argparse restricts -p and -t to the choices
ArgsSet ==
    [genome : Patterns,
     phase : Range(VALID_PHASES) \cup {None},
     type : Range(VALID_TYPES) \cup {None},
     log_file : {None, "build.log"}]

NoDownloader == [cls |-> None]

Init ==
    /\ args \in ArgsSet
    /\ configFile \in Configs
    /\ cfg = <<>>
    /\ genome_re = <<>>
    /\ logfile = "stderr"
    /\ closed = FALSE
    /\ opens = 0
    /\ closes = 0
    /\ log = <<>>
    /\ calls = <<>>
    /\ downloader = NoDownloader
    /\ gi = 1
    /\ ti = 1
    /\ pc = "open_log"
    /\ exc = None

-----------------------------------------------------------------------------
(* Helpers of the actions.                                                 *)

\* an exception nobody catches: the interpreter unwinds main and stops
Raise(e) == pc' = "crashed" /\ exc' = e

\* dict.get(key, default)
Get(d, key, default) == IF key \in DOMAIN d THEN d[key] ELSE default

\* a mutant of PhaseGate: an unset phase selects no phase
PhaseGateNoDefault(p) == args.phase = p

\* a mutant of PhaseGate: the phase restriction is ignored
PhaseGateAlways(p) == TRUE

\* a mutant of TypeGate: the datatype restriction is ignored
TypeGateIgnored(ty) == TRUE

\* "self.args.phase in [p, None]" and "self.args.type in [t, None]"
PhaseGate(p) == args.phase \in {p, None}
TypeGate(ty) == args.type \in {ty, None}

\* an entry of calls: what happened (op) to which collaborator (ph), for
\* which genome (position in cfg) and datatype
Event(op, ph) == [op |-> op, ph |-> ph, g |-> gi, t |-> VALID_TYPES[ti]]

\* the variables an uncaught exception leaves as they are
others == <<args, configFile, cfg, genome_re, logfile, closed, opens, closes,
            log, calls, downloader, gi, ti>>

\* self.log(s) around the rest of a statement: writing to a closed stream
\* raises ValueError
Logging(rest) ==
    IF closed THEN Raise("ValueError") /\ UNCHANGED others ELSE rest

\* the record and the datatype the loops are at
gg == cfg[gi]
t == VALID_TYPES[ti]

-----------------------------------------------------------------------------
(* main, lines 121-128: startup.                                           *)

\* lines 122-123: open the log file when one is named
OpenLog ==
    /\ pc = "open_log"
    /\ IF args.log_file # None
       THEN logfile' = "file" /\ opens' = opens + 1
       ELSE UNCHANGED <<logfile, opens>>
    /\ pc' = "banner"
    /\ UNCHANGED <<args, configFile, cfg, genome_re, closed, closes, log,
                   calls, downloader, gi, ti, exc>>

\* line 123: open() raises (the file cannot be written)
OpenLogRaise ==
    /\ pc = "open_log"
    /\ args.log_file # None
    /\ Raise("OSError")
    /\ UNCHANGED others

\* lines 124-125: the banner and the arguments
LogBanner ==
    /\ pc = "banner"
    /\ Logging(/\ log' = log \o <<[kind |-> "Banner"],
                                  [kind |-> "Arguments", args |-> args]>>
               /\ pc' = "compile"
               /\ UNCHANGED <<args, configFile, cfg, genome_re, logfile,
                              closed, opens, closes, calls, downloader,
                              gi, ti, exc>>)

\* line 126: re.compile('^' + self.args.genome + '$')
CompilePattern ==
    /\ pc = "compile"
    /\ ValidPattern(AnchoredPattern(args.genome))
    /\ genome_re' = AnchoredPattern(args.genome)
    /\ pc' = "read_config"
    /\ UNCHANGED <<args, configFile, cfg, logfile, closed, opens, closes,
                   log, calls, downloader, gi, ti, exc>>

\* a mutant of CompileRaise: an invalid pattern is not detected at startup
CompileRaiseIgnored ==
    /\ pc = "compile"
    /\ ~ValidPattern(AnchoredPattern(args.genome))
    /\ genome_re' = AnchoredPattern(args.genome)
    /\ pc' = "read_config"
    /\ UNCHANGED <<args, configFile, cfg, logfile, closed, opens, closes,
                   log, calls, downloader, gi, ti, exc>>

\* line 126: re.compile raises re.error
CompileRaise ==
    /\ pc = "compile"
    /\ ~ValidPattern(AnchoredPattern(args.genome))
    /\ Raise("re.error")
    /\ UNCHANGED others

\* line 128: the whole list is read once
ReadConfig ==
    /\ pc = "read_config"
    /\ cfg' = configFile
    /\ gi' = 1
    /\ pc' = "genome_loop"
    /\ UNCHANGED <<args, configFile, genome_re, logfile, closed, opens,
                   closes, log, calls, downloader, ti, exc>>

\* line 128: the file is missing or unreadable
ReadConfigRaise ==
    /\ pc = "read_config"
    /\ Raise("OSError")
    /\ UNCHANGED others

-----------------------------------------------------------------------------
(* main, lines 129-135: the genome loop and the exit.                      *)

\* a mutant of ProcessGenome: a matching genome without datatype sections is
\* reported as skipped
ProcessGenomeEmptySkipped ==
    /\ pc = "genome_loop"
    /\ gi <= Len(cfg)
    /\ Selected(genome_re, gg.name)
    /\ IF DOMAIN gg \cap Range(VALID_TYPES) = {}
       THEN /\ log' = Append(log, [kind |-> "Skipped", g |-> gi,
                                   name |-> gg.name])
            /\ gi' = gi + 1
            /\ UNCHANGED <<ti, pc>>
       ELSE /\ log' = Append(log, [kind |-> "Processing", g |-> gi,
                                   cfg |-> gg])
            /\ ti' = 1
            /\ pc' = "type_loop"
            /\ UNCHANGED gi
    /\ UNCHANGED <<args, configFile, cfg, genome_re, logfile, closed, opens,
                   closes, calls, downloader, exc>>

\* lines 130-131 and 98-99: a matching genome enters process()
ProcessGenome ==
    /\ pc = "genome_loop"
    /\ gi <= Len(cfg)
    /\ Selected(genome_re, gg.name)
    /\ Logging(/\ log' = Append(log, [kind |-> "Processing", g |-> gi,
                                      cfg |-> gg])
               /\ ti' = 1
               /\ pc' = "type_loop"
               /\ UNCHANGED <<args, configFile, cfg, genome_re, logfile,
                              closed, opens, closes, calls, downloader,
                              gi, exc>>)

\* a mutant of SkipGenome: the genome is passed over without a log entry
SkipGenomeSilent ==
    /\ pc = "genome_loop"
    /\ gi <= Len(cfg)
    /\ ~Selected(genome_re, gg.name)
    /\ gi' = gi + 1
    /\ UNCHANGED <<args, configFile, cfg, genome_re, logfile, closed, opens,
                   closes, log, calls, downloader, ti, pc, exc>>

\* lines 132-133: any other genome is skipped
SkipGenome ==
    /\ pc = "genome_loop"
    /\ gi <= Len(cfg)
    /\ ~Selected(genome_re, gg.name)
    /\ Logging(/\ log' = Append(log, [kind |-> "Skipped", g |-> gi,
                                      name |-> gg.name])
               /\ gi' = gi + 1
               /\ UNCHANGED <<args, configFile, cfg, genome_re, logfile,
                              closed, opens, closes, calls, downloader,
                              ti, pc, exc>>)

\* line 134: after the last genome
LogExit ==
    /\ pc = "genome_loop"
    /\ gi > Len(cfg)
    /\ Logging(/\ log' = Append(log, [kind |-> "Exiting"])
               /\ pc' = "close"
               /\ UNCHANGED <<args, configFile, cfg, genome_re, logfile,
                              closed, opens, closes, calls, downloader,
                              gi, ti, exc>>)

\* a mutant of CloseLog: the stream is left open
CloseLogForgotten ==
    /\ pc = "close"
    /\ pc' = "done"
    /\ UNCHANGED <<args, configFile, cfg, genome_re, logfile, closed, opens,
                   closes, log, calls, downloader, gi, ti, exc>>

\* line 135: self.logfile.close()
CloseLog ==
    /\ pc = "close"
    /\ closed' = TRUE
    /\ closes' = closes + 1
    /\ pc' = "done"
    /\ UNCHANGED <<args, configFile, cfg, genome_re, logfile, opens, log,
                   calls, downloader, gi, ti, exc>>

-----------------------------------------------------------------------------
(* process, lines 100-104: the datatype loop and the downloader.           *)

\* lines 101-103: whether the loop body runs for the datatype it is at
Visits == TypeGate(t) /\ t \in DOMAIN gg

\* line 85: g[type].get("source", "UrlDownloader")
SourceName == Get(gg[t], "source", "UrlDownloader")

\* line 100: the loop is over, process returns to the genome loop
ProcessReturn ==
    /\ pc = "type_loop"
    /\ ti > Len(VALID_TYPES)
    /\ gi' = gi + 1
    /\ ti' = 1
    /\ pc' = "genome_loop"
    /\ UNCHANGED <<args, configFile, cfg, genome_re, logfile, closed, opens,
                   closes, log, calls, downloader, exc>>

\* a mutant of NextType: the loop does not advance past a datatype it does
\* not visit
NextTypeStuck ==
    /\ pc = "type_loop"
    /\ ti <= Len(VALID_TYPES)
    /\ ~Visits
    /\ UNCHANGED vars

\* lines 101-103: a datatype that is restricted away or has no section
NextType ==
    /\ pc = "type_loop"
    /\ ti <= Len(VALID_TYPES)
    /\ ~Visits
    /\ ti' = ti + 1
    /\ UNCHANGED <<args, configFile, cfg, genome_re, logfile, closed, opens,
                   closes, log, calls, downloader, gi, pc, exc>>

\* a mutant of MakeDownloaderObject: the downloader is made only when the
\* download phase is to run
MakeDownloaderLazy ==
    /\ pc = "type_loop"
    /\ ti <= Len(VALID_TYPES)
    /\ Visits
    /\ SourceName \in DownloaderNames
    /\ IF PhaseGate("download")
       THEN /\ calls' = Append(calls, Event("construct", "download"))
            /\ downloader' = [cls |-> SourceName, cfg |-> gg, type |-> t]
       ELSE UNCHANGED <<calls, downloader>>
    /\ pc' = "download"
    /\ UNCHANGED <<args, configFile, cfg, genome_re, logfile, closed, opens,
                   closes, log, gi, ti, exc>>

\* lines 104, 85-87: the downloader class is looked up and constructed
MakeDownloaderObject ==
    /\ pc = "type_loop"
    /\ ti <= Len(VALID_TYPES)
    /\ Visits
    /\ SourceName \in DownloaderNames
    /\ calls' = Append(calls, Event("construct", "download"))
    /\ downloader' = [cls |-> SourceName, cfg |-> gg, type |-> t]
    /\ pc' = "download"
    /\ UNCHANGED <<args, configFile, cfg, genome_re, logfile, closed, opens,
                   closes, log, gi, ti, exc>>

\* a mutant of MakeDownloaderKeyError: an unknown name is skipped silently
MakeDownloaderUnknownSkipped ==
    /\ pc = "type_loop"
    /\ ti <= Len(VALID_TYPES)
    /\ Visits
    /\ SourceName \notin DownloaderNames
    /\ ti' = ti + 1
    /\ UNCHANGED <<args, configFile, cfg, genome_re, logfile, closed, opens,
                   closes, log, calls, downloader, gi, pc, exc>>

\* line 86: downloaderNameMap[sname] raises KeyError for an unknown name
MakeDownloaderKeyError ==
    /\ pc = "type_loop"
    /\ ti <= Len(VALID_TYPES)
    /\ Visits
    /\ SourceName \notin DownloaderNames
    /\ Raise("KeyError")
    /\ UNCHANGED others

\* line 87: the constructor raises
MakeDownloaderRaise ==
    /\ pc = "type_loop"
    /\ ti <= Len(VALID_TYPES)
    /\ Visits
    /\ SourceName \in DownloaderNames
    /\ calls' = Append(calls, Event("raise", "download"))
    /\ Raise("CollaboratorError")
    /\ UNCHANGED <<args, configFile, cfg, genome_re, logfile, closed, opens,
                   closes, log, downloader, gi, ti>>

-----------------------------------------------------------------------------
(* process, lines 106-108: the download phase.                             *)

\* line 106: the phase is restricted away
DownloadSkip ==
    /\ pc = "download"
    /\ ~PhaseGate("download")
    /\ pc' = "import"
    /\ UNCHANGED <<args, configFile, cfg, genome_re, logfile, closed, opens,
                   closes, log, calls, downloader, gi, ti, exc>>

\* a mutant of DownloadBegin: the download is started and not waited for
DownloadBeginNoWait ==
    /\ pc = "download"
    /\ PhaseGate("download")
    /\ Logging(/\ log' = Append(log, [kind |-> "downloading", g |-> gi,
                                      name |-> gg.name, t |-> t,
                                      url |-> downloader.cfg[t].url,
                                      seq |-> Len(calls)])
               /\ calls' = Append(calls, Event("begin", "download"))
               /\ pc' = "import"
               /\ UNCHANGED <<args, configFile, cfg, genome_re, logfile,
                              closed, opens, closes, downloader, gi, ti,
                              exc>>)

\* lines 107-108: the log entry, then downloadData() is entered
DownloadBegin ==
    /\ pc = "download"
    /\ PhaseGate("download")
    /\ Logging(/\ log' = Append(log, [kind |-> "downloading", g |-> gi,
                                      name |-> gg.name, t |-> t,
                                      url |-> downloader.cfg[t].url,
                                      seq |-> Len(calls)])
               /\ calls' = Append(calls, Event("begin", "download"))
               /\ pc' = "in_download"
               /\ UNCHANGED <<args, configFile, cfg, genome_re, logfile,
                              closed, opens, closes, downloader, gi, ti,
                              exc>>)

\* line 108: downloadData() returns
DownloadReturn ==
    /\ pc = "in_download"
    /\ calls' = Append(calls, Event("return", "download"))
    /\ pc' = "import"
    /\ UNCHANGED <<args, configFile, cfg, genome_re, logfile, closed, opens,
                   closes, log, downloader, gi, ti, exc>>

\* a mutant of DownloadRaise: the failure is caught and the run goes on
DownloadRaiseCaught ==
    /\ pc = "in_download"
    /\ calls' = Append(calls, Event("raise", "download"))
    /\ pc' = "import"
    /\ UNCHANGED <<args, configFile, cfg, genome_re, logfile, closed, opens,
                   closes, log, downloader, gi, ti, exc>>

\* line 108: downloadData() raises, and nothing catches it
DownloadRaise ==
    /\ pc = "in_download"
    /\ calls' = Append(calls, Event("raise", "download"))
    /\ Raise("CollaboratorError")
    /\ UNCHANGED <<args, configFile, cfg, genome_re, logfile, closed, opens,
                   closes, log, downloader, gi, ti>>

-----------------------------------------------------------------------------
(* process, lines 110-114: the import phase.                               *)

\* line 110: the phase is restricted away
ImportSkip ==
    /\ pc = "import"
    /\ ~PhaseGate("import")
    /\ pc' = "deploy"
    /\ UNCHANGED <<args, configFile, cfg, genome_re, logfile, closed, opens,
                   closes, log, calls, downloader, gi, ti, exc>>

\* a mutant of ImportBegin: the entry is written once go() has been entered
ImportBeginLogsLate ==
    /\ pc = "import"
    /\ PhaseGate("import")
    /\ Logging(/\ log' = Append(log, [kind |-> "importing", g |-> gi,
                                      name |-> gg.name, t |-> t,
                                      seq |-> Len(calls) + 2])
               /\ calls' = calls \o <<Event("construct", "import"),
                                      Event("begin", "import")>>
               /\ pc' = "in_import"
               /\ UNCHANGED <<args, configFile, cfg, genome_re, logfile,
                              closed, opens, closes, downloader, gi, ti,
                              exc>>)

\* lines 111-114: the importer is constructed, the entry is logged and go()
\* is entered
ImportBegin ==
    /\ pc = "import"
    /\ PhaseGate("import")
    /\ Logging(/\ log' = Append(log, [kind |-> "importing", g |-> gi,
                                      name |-> gg.name, t |-> t,
                                      seq |-> Len(calls) + 1])
               /\ calls' = calls \o <<Event("construct", "import"),
                                      Event("begin", "import")>>
               /\ pc' = "in_import"
               /\ UNCHANGED <<args, configFile, cfg, genome_re, logfile,
                              closed, opens, closes, downloader, gi, ti,
                              exc>>)

\* line 112: the importer's constructor raises
ImporterConstructRaise ==
    /\ pc = "import"
    /\ PhaseGate("import")
    /\ calls' = Append(calls, Event("raise", "import"))
    /\ Raise("CollaboratorError")
    /\ UNCHANGED <<args, configFile, cfg, genome_re, logfile, closed, opens,
                   closes, log, downloader, gi, ti>>

\* line 114: go() returns
ImportReturn ==
    /\ pc = "in_import"
    /\ calls' = Append(calls, Event("return", "import"))
    /\ pc' = "deploy"
    /\ UNCHANGED <<args, configFile, cfg, genome_re, logfile, closed, opens,
                   closes, log, downloader, gi, ti, exc>>

\* line 114: go() raises
ImportRaise ==
    /\ pc = "in_import"
    /\ calls' = Append(calls, Event("raise", "import"))
    /\ Raise("CollaboratorError")
    /\ UNCHANGED <<args, configFile, cfg, genome_re, logfile, closed, opens,
                   closes, log, downloader, gi, ti>>

-----------------------------------------------------------------------------
(* process, lines 116-117: the deploy phase.                               *)

\* line 116: the phase is restricted away; the loop goes to the next datatype
DeploySkip ==
    /\ pc = "deploy"
    /\ ~PhaseGate("deploy")
    /\ ti' = ti + 1
    /\ pc' = "type_loop"
    /\ UNCHANGED <<args, configFile, cfg, genome_re, logfile, closed, opens,
                   closes, log, calls, downloader, gi, exc>>

\* line 117: the Deployer is constructed and go() is entered
DeployBegin ==
    /\ pc = "deploy"
    /\ PhaseGate("deploy")
    /\ calls' = calls \o <<Event("construct", "deploy"),
                           Event("begin", "deploy")>>
    /\ pc' = "in_deploy"
    /\ UNCHANGED <<args, configFile, cfg, genome_re, logfile, closed, opens,
                   closes, log, downloader, gi, ti, exc>>

\* line 117: the Deployer's constructor raises
DeployerConstructRaise ==
    /\ pc = "deploy"
    /\ PhaseGate("deploy")
    /\ calls' = Append(calls, Event("raise", "deploy"))
    /\ Raise("CollaboratorError")
    /\ UNCHANGED <<args, configFile, cfg, genome_re, logfile, closed, opens,
                   closes, log, downloader, gi, ti>>

\* line 117: go() returns; the loop goes to the next datatype
DeployReturn ==
    /\ pc = "in_deploy"
    /\ calls' = Append(calls, Event("return", "deploy"))
    /\ ti' = ti + 1
    /\ pc' = "type_loop"
    /\ UNCHANGED <<args, configFile, cfg, genome_re, logfile, closed, opens,
                   closes, log, downloader, gi, exc>>

\* line 117: go() raises
DeployRaise ==
    /\ pc = "in_deploy"
    /\ calls' = Append(calls, Event("raise", "deploy"))
    /\ Raise("CollaboratorError")
    /\ UNCHANGED <<args, configFile, cfg, genome_re, logfile, closed, opens,
                   closes, log, downloader, gi, ti>>

-----------------------------------------------------------------------------
Next ==
    \/ OpenLog \/ OpenLogRaise \/ LogBanner
    \/ CompilePattern \/ CompileRaise
    \/ ReadConfig \/ ReadConfigRaise
    \/ ProcessGenome \/ SkipGenome \/ LogExit \/ CloseLog
    \/ ProcessReturn \/ NextType
    \/ MakeDownloaderObject \/ MakeDownloaderKeyError \/ MakeDownloaderRaise
    \/ DownloadSkip \/ DownloadBegin \/ DownloadReturn \/ DownloadRaise
    \/ ImportSkip \/ ImportBegin \/ ImporterConstructRaise
    \/ ImportReturn \/ ImportRaise
    \/ DeploySkip \/ DeployBegin \/ DeployerConstructRaise
    \/ DeployReturn \/ DeployRaise

Spec == Init /\ [][Next]_vars

\* the driver is one thread of control that runs until main returns or an
\* exception leaves it: a statement that can execute does execute
LiveSpec == Init /\ [][Next]_vars /\ WF_vars(Next)

-----------------------------------------------------------------------------
(* Vocabulary of the properties.                                           *)

\* the order of the datatypes and of the phases the specification states
CanonicalTypes == <<"assembly", "models", "orthology">>
CanonicalPhases == <<"download", "import", "deploy">>

IndexIn(seq, x) == CHOOSE k \in 1..Len(seq) : seq[k] = x

\* a name fully matches a pattern (re.fullmatch): some alternative of the
\* pattern itself consumes the whole name
FullMatch(pat, name) ==
    \E br \in Branches(pat) : Len(name) \in Run(br, 1, name, {0})

\* FullMatch, and the selection main makes, tabulated for the patterns and
\* the names of the inputs
RecordNames == {r.name : r \in GenomeRecords}

FullMatchTable ==
    [p \in Patterns |-> [nm \in RecordNames |-> FullMatch(p, nm)]]

MatchTable ==
    [p \in Patterns |->
        [nm \in RecordNames |-> ReMatch(AnchoredPattern(p), nm)]]

\* the place of a datatype in the canonical order
TypeRank == [ty \in Range(CanonicalTypes) |-> IndexIn(CanonicalTypes, ty)]

\* the events of one (genome, datatype) pair
HasEvent(op, ph, i, ty) ==
    \E k \in 1..Len(calls) :
        calls[k] = [op |-> op, ph |-> ph, g |-> i, t |-> ty]

Touched(i, ty) == \E k \in 1..Len(calls) : calls[k].g = i /\ calls[k].t = ty

\* the main loop is done with genome i
Completed(i) == i \in 1..Len(cfg) /\ i < gi

\* the datatype section ty of genome i is present and not restricted away
Allowed(i, ty) == ty \in DOMAIN cfg[i] /\ args.type \in {ty, None}

\* C1: every completed genome whose name fully matches the pattern had, for
\* each datatype section present and allowed, its downloader constructed and
\* every requested phase begun; and the events are in configuration order
\* of the genomes, and those of one genome never go back to an earlier
\* datatype of the order assembly, models, orthology.
C1_DatatypesInOrder ==
    /\ \A i \in 1..Len(cfg) :
          (Completed(i) /\ FullMatchTable[args.genome][cfg[i].name]) =>
              \A k \in 1..Len(CanonicalTypes) :
                  Allowed(i, CanonicalTypes[k]) =>
                      /\ HasEvent("construct", "download", i, CanonicalTypes[k])
                      /\ \A p \in Range(CanonicalPhases) :
                            args.phase \in {p, None} =>
                                HasEvent("begin", p, i, CanonicalTypes[k])
    /\ \A n \in 1..(Len(calls) - 1) :
          /\ calls[n].g <= calls[n + 1].g
          /\ calls[n].g = calls[n + 1].g =>
                TypeRank[calls[n].t] <= TypeRank[calls[n + 1].t]

\* C1 witness: under the alternation a|b a fully matching genome with all
\* three sections was processed to the end
C1_Witness ==
    /\ pc = "done"
    /\ args.genome = <<"a", "|", "b">>
    /\ \E i \in 1..Len(cfg) :
          /\ FullMatch(args.genome, cfg[i].name)
          /\ HasEvent("return", "deploy", i, "assembly")
          /\ HasEvent("return", "deploy", i, "models")
          /\ HasEvent("return", "deploy", i, "orthology")

\* C2: with no phase restriction, an import begins only after the download
\* of the same pair returned, a deploy only after the import of the same pair
\* returned, and no operation begins while another has not returned.
C2_PhasesInSequence ==
    args.phase = None =>
        \A n \in 1..Len(calls) :
            calls[n].op = "begin" =>
                /\ calls[n].ph = "import" =>
                      \E m \in 1..(n - 1) :
                          calls[m] = [calls[n] EXCEPT !.op = "return",
                                                      !.ph = "download"]
                /\ calls[n].ph = "deploy" =>
                      \E m \in 1..(n - 1) :
                          calls[m] = [calls[n] EXCEPT !.op = "return",
                                                      !.ph = "import"]
                /\ \A m \in 1..(n - 1) :
                      calls[m].op = "begin" =>
                          \E r \in (m + 1)..(n - 1) :
                              calls[r] = [calls[m] EXCEPT !.op = "return"]

\* C2 witness: an unrestricted run in which a deploy has begun
C2_Witness ==
    /\ args.phase = None
    /\ \E n \in 1..Len(calls) : calls[n].op = "begin" /\ calls[n].ph = "deploy"

\* C3: under the phase restriction "deploy" only deploy is invoked, and no
\* downloader and no importer is ever constructed.
C3_DeployOnlyConstructsNoDownloader ==
    args.phase = "deploy" =>
        \A n \in 1..Len(calls) :
            /\ calls[n].op = "begin" => calls[n].ph = "deploy"
            /\ calls[n].op = "construct" => calls[n].ph = "deploy"

\* the begin events, in order: the operations invoked
RECURSIVE Begins(_)
Begins(evs) ==
    IF evs = <<>> THEN <<>>
    ELSE IF Head(evs).op = "begin" THEN <<Head(evs)>> \o Begins(Tail(evs))
    ELSE Begins(Tail(evs))

\* the operations an unrestricted run without failure is to invoke, from
\* genome i and canonical datatype k on
RECURSIVE ExpectedOps(_, _)
ExpectedOps(i, k) ==
    IF i > Len(cfg) THEN <<>>
    ELSE IF k > Len(CanonicalTypes) THEN ExpectedOps(i + 1, 1)
    ELSE IF Selected(genome_re, cfg[i].name)
            /\ CanonicalTypes[k] \in DOMAIN cfg[i]
         THEN [p \in 1..3 |-> [op |-> "begin", ph |-> CanonicalPhases[p],
                               g |-> i, t |-> CanonicalTypes[k]]]
              \o ExpectedOps(i, k + 1)
         ELSE ExpectedOps(i, k + 1)

IsPrefix(a, b) == Len(a) <= Len(b) /\ a = SubSeq(b, 1, Len(a))

\* C4: with no phase and no datatype restriction the operations invoked are
\* always a prefix of, and at normal termination exactly, the sequence
\* download, import, deploy for each present datatype (assembly, models,
\* orthology) of each selected genome in configuration order.
C4_ExactOperationSequence ==
    (args.phase = None /\ args.type = None /\ pc \notin
        {"open_log", "banner", "compile", "read_config"}) =>
        /\ IsPrefix(Begins(calls), ExpectedOps(1, 1))
        /\ pc = "done" => Begins(calls) = ExpectedOps(1, 1)

\* C4 witness: a single genome with the sections assembly and models, run to
\* the end without restriction: six operations
C4_Witness ==
    /\ pc = "done"
    /\ args.phase = None /\ args.type = None
    /\ Len(cfg) = 1
    /\ DOMAIN cfg[1] = {"name", "assembly", "models"}
    /\ Len(Begins(calls)) = 6

\* C5: a genome whose name does not fully match the pattern has no strategy
\* constructed for it and is logged as skipped, with its name.
C5_NonMatchingSkipped ==
    \A i \in 1..Len(cfg) :
        (Completed(i) /\ ~FullMatch(args.genome, cfg[i].name)) =>
            /\ ~\E n \in 1..Len(calls) : calls[n].g = i
            /\ \E n \in 1..Len(log) :
                  log[n] = [kind |-> "Skipped", g |-> i, name |-> cfg[i].name]

\* the genomes the main loop has decided on are those before gi, and gi
\* itself once process() has been entered for it
Decided(i) ==
    i \in 1..Len(cfg) /\ (i < gi \/ (i = gi /\ pc # "genome_loop"))

WasProcessed(i) ==
    \E n \in 1..Len(log) : log[n].kind = "Processing" /\ log[n].g = i

\* C6: a genome is selected (process() is entered for it) if and only if its
\* name fully matches the selection pattern.
C6_SelectedIffFullMatch ==
    \A i \in 1..Len(cfg) :
        Decided(i) => (WasProcessed(i) <=> FullMatch(args.genome, cfg[i].name))

\* the section ty of genome i names a source the registry does not hold
UnknownSource(i, ty) ==
    /\ ty \in DOMAIN cfg[i]
    /\ Get(cfg[i][ty], "source", "UrlDownloader") \notin DownloaderNames

\* the run has gone past datatype k of genome i
Beyond(i, k) == gi > i \/ (gi = i /\ pc # "genome_loop" /\ ti > k)

\* C7: a visited datatype section whose source name is not in the downloader
\* registry ends the run with an error: nothing is constructed or invoked
\* for that pair, the run never goes on to a later datatype or genome, and
\* when it stops at that pair it has stopped with the lookup's KeyError.
C7_UnknownSourceAborts ==
    \A i \in 1..Len(cfg) : \A k \in 1..Len(CanonicalTypes) :
        (/\ Allowed(i, CanonicalTypes[k])
         /\ UnknownSource(i, CanonicalTypes[k])
         /\ Selected(genome_re, cfg[i].name)) =>
            /\ ~Touched(i, CanonicalTypes[k])
            /\ ~Beyond(i, k)
            /\ (gi = i /\ ti = k /\ pc \notin {"genome_loop", "type_loop"})
                  => (pc = "crashed" /\ exc = "KeyError")

\* C7 witness: the run stopped with KeyError at a section with an unknown
\* source while a later datatype section and a later genome were still to
\* come
C7_Witness ==
    /\ pc = "crashed" /\ exc = "KeyError"
    /\ UnknownSource(gi, VALID_TYPES[ti])
    /\ \E k \in (ti + 1)..Len(VALID_TYPES) : Allowed(gi, VALID_TYPES[k])
    /\ gi < Len(cfg)
    /\ Selected(genome_re, cfg[gi + 1].name)

\* C8: a failure raised by a collaborator is the last event of the run: the
\* run is stopped by it, nothing is constructed or invoked afterwards, and
\* no operation is ever begun twice for the same pair.
C8_FailureHaltsBatch ==
    /\ \A n \in 1..Len(calls) :
          calls[n].op = "raise" =>
              /\ n = Len(calls)
              /\ pc = "crashed" /\ exc = "CollaboratorError"
              /\ gi = calls[n].g /\ VALID_TYPES[ti] = calls[n].t
    /\ \A n \in 1..Len(calls) :
          calls[n].op = "begin" => \A m \in 1..(n - 1) : calls[m] # calls[n]

\* C8 witness: a download failed with the import and deploy of the pair, a
\* later datatype of the genome and a later selected genome still to come
C8_Witness ==
    /\ pc = "crashed"
    /\ Len(calls) >= 2
    /\ calls[Len(calls)].op = "raise" /\ calls[Len(calls)].ph = "download"
    /\ calls[Len(calls) - 1].op = "begin"
    /\ args.phase = None
    /\ \E k \in (ti + 1)..Len(VALID_TYPES) : Allowed(gi, VALID_TYPES[k])
    /\ gi < Len(cfg)
    /\ Selected(genome_re, cfg[gi + 1].name)

\* the log ends with the termination message
EndsWithExit == Len(log) > 0 /\ log[Len(log)] = [kind |-> "Exiting"]

\* C9: on every exit path, the exit by an unrecovered error (a collaborator
\* failure or an unknown strategy name) included, the termination message
\* is logged and the log stream is closed exactly once.
C9_EveryExitClosesLog ==
    (\/ pc = "done"
     \/ pc = "crashed" /\ exc \in {"CollaboratorError", "KeyError"}) =>
        (EndsWithExit /\ closed /\ closes = 1)

\* C10: at normal termination the stream, opened at most once (only when a
\* log file is configured), has been closed exactly once, "Builder exiting."
\* is the last and the only such entry, and nothing can happen after the
\* close; a closed stream is only ever seen at normal termination, so no
\* entry is written after the close.
C10_NormalTerminationClosesOnce ==
    /\ opens \in {0, 1}
    /\ log # <<>> =>
          /\ opens = (IF args.log_file = None THEN 0 ELSE 1)
          /\ logfile = (IF args.log_file = None THEN "stderr" ELSE "file")
    /\ pc = "done" =>
          /\ closed /\ closes = 1
          /\ EndsWithExit
          /\ \A n \in 1..(Len(log) - 1) : log[n].kind # "Exiting"
          /\ ~ENABLED Next
    /\ closed => pc = "done"
    /\ closes > 0 => closed

\* C10 witness: a run that logged to a file, processed a genome and ended
\* normally
C10_Witness ==
    /\ pc = "done"
    /\ logfile = "file"
    /\ closes = 1
    /\ \E n \in 1..Len(log) : log[n].kind = "Processing"
    /\ calls # <<>>

\* lines 139-140: nothing catches an exception that leaves main, so the
\* interpreter prints its traceback on the standard error stream and stops
StderrTraceback == IF pc = "crashed" THEN exc ELSE None

\* an error is reported in the log: the driver wrote an entry about it, or
\* the log stream is the standard error stream, which holds the traceback
ReportedInLog ==
    \/ \E n \in 1..Len(log) : log[n].kind = "Error"
    \/ logfile = "stderr" /\ StderrTraceback # None

\* the run was ended by a configuration error: an invalid pattern, a config
\* file that cannot be read, or an unknown strategy name
ConfigError ==
    /\ pc = "crashed"
    /\ \/ exc \in {"re.error", "KeyError"}
       \/ exc = "OSError" /\ log # <<>>

\* C11: every configuration error is fatal and is reported by an entry in
\* the log before the run terminates.
C11_ConfigErrorsLogged == ConfigError => ReportedInLog

\* the run was ended by a failure of the startup: the log file, the pattern
\* or the config file
StartupFailed == pc = "crashed" /\ exc \in {"re.error", "OSError"}

NoGenomeDecided ==
    \A n \in 1..Len(log) : log[n].kind \notin {"Processing", "Skipped"}

\* C12: a run ended by a startup failure has logged no genome as processed
\* or skipped and has constructed or invoked no strategy; and an invalid
\* pattern never lets the run get past the compilation of the pattern.
C12_StartupFailureBeforeGenomes ==
    /\ StartupFailed => (calls = <<>> /\ cfg = <<>> /\ NoGenomeDecided)
    /\ ~ValidPattern(AnchoredPattern(args.genome)) =>
          /\ pc \in {"open_log", "banner", "compile", "crashed"}
          /\ calls = <<>> /\ NoGenomeDecided

\* C12 witness: the invalid pattern ended a run whose config file holds a
\* genome and whose log was already open
C12_Witness ==
    /\ pc = "crashed" /\ exc = "re.error"
    /\ Len(configFile) > 0
    /\ log # <<>> /\ logfile = "file"

\* genome i has none of the three datatype sections
NoSections(i) == DOMAIN cfg[i] \cap Range(CanonicalTypes) = {}

WasSkipped(i) ==
    \E n \in 1..Len(log) : log[n].kind = "Skipped" /\ log[n].g = i

\* C13: a selected genome without any datatype section causes no strategy
\* construction or invocation, is logged as processed and never as skipped,
\* and does not stop the run: the loop goes on to the next genome.
C13_EmptyGenomeProcessed ==
    \A i \in 1..Len(cfg) :
        (Decided(i) /\ NoSections(i) /\ Selected(genome_re, cfg[i].name)) =>
            /\ ~\E n \in 1..Len(calls) : calls[n].g = i
            /\ \A n \in 1..Len(log) :
                  (log[n].kind \notin {"Banner", "Arguments", "Exiting"}
                   /\ log[n].g = i) => log[n].kind = "Processing"
            /\ WasProcessed(i) /\ ~WasSkipped(i)
            /\ ~(gi = i /\ pc = "crashed")

\* C13 witness: a selected genome without sections was passed and the run
\* went on to process the genome after it
C13_Witness ==
    /\ Len(cfg) = 2
    /\ Selected(genome_re, cfg[1].name) /\ NoSections(1)
    /\ WasProcessed(1)
    /\ gi = 2 /\ calls # <<>>

\* C14: strategies are constructed and invoked, and phase entries logged,
\* only for datatypes whose section is present in the genome's record and
\* which the datatype restriction, when set, names; a run never fails at a
\* datatype that is absent or restricted away.
C14_DatatypeGating ==
    /\ \A n \in 1..Len(calls) :
          /\ calls[n].t \in DOMAIN cfg[calls[n].g]
          /\ args.type \in {calls[n].t, None}
    /\ \A n \in 1..Len(log) :
          log[n].kind \in {"downloading", "importing"} =>
              /\ log[n].t \in DOMAIN cfg[log[n].g]
              /\ args.type \in {log[n].t, None}
    /\ (pc = "crashed" /\ exc \in {"KeyError", "CollaboratorError"}) =>
          Allowed(gi, CanonicalTypes[ti])
    /\ \A i \in 1..Len(cfg) : \A k \in 1..Len(CanonicalTypes) :
          (Beyond(i, k) /\ Allowed(i, CanonicalTypes[k])
           /\ ~Touched(i, CanonicalTypes[k]))
              => ~Selected(genome_re, cfg[i].name)

\* C14 witness: under the restriction to models a genome holding the sections
\* assembly and models was processed to the end, for models
C14_Witness ==
    /\ pc = "done"
    /\ args.type = "models"
    /\ \E i \in 1..Len(cfg) :
          /\ "assembly" \in DOMAIN cfg[i]
          /\ HasEvent("return", "deploy", i, "models")

\* the genome filter as a function of the pattern and the names alone: the
\* positions, in order, of the first n names the compiled pattern matches
\* (want = TRUE) or does not match (want = FALSE)
RECURSIVE FilterPositions(_, _, _, _)
FilterPositions(pat, names, n, want) ==
    IF n = 0 THEN <<>>
    ELSE IF MatchTable[pat][names[n]] = want
         THEN Append(FilterPositions(pat, names, n - 1, want), n)
         ELSE FilterPositions(pat, names, n - 1, want)

\* the genome positions of the log entries of one kind, in log order
RECURSIVE LoggedPositions(_, _)
LoggedPositions(entries, kind) ==
    IF entries = <<>> THEN <<>>
    ELSE IF Head(entries).kind = kind
         THEN <<Head(entries).g>> \o LoggedPositions(Tail(entries), kind)
         ELSE LoggedPositions(Tail(entries), kind)

\* how many genomes the main loop has decided on
DecidedCount == Cardinality({i \in 1..Len(cfg) : Decided(i)})

Names == [i \in 1..Len(cfg) |-> cfg[i].name]

\* C15: the genomes a run selects, and those it skips, are exactly and in
\* the same order those the filter yields as a function of the pattern and
\* the names alone; two genomes of the same name are decided alike, whatever
\* came before them.
C15_FilterDependsOnNameOnly ==
    /\ LoggedPositions(log, "Processing")
          = FilterPositions(args.genome, Names, DecidedCount, TRUE)
    /\ LoggedPositions(log, "Skipped")
          = FilterPositions(args.genome, Names, DecidedCount, FALSE)
    /\ \A i, j \in 1..Len(cfg) :
          (Decided(i) /\ Decided(j) /\ cfg[i].name = cfg[j].name) =>
              (WasProcessed(i) <=> WasProcessed(j))

\* C15 witness: two different records of the same name were both selected,
\* the second after the first had been processed
C15_Witness ==
    /\ pc = "done"
    /\ Len(cfg) = 2
    /\ cfg[1] # cfg[2] /\ cfg[1].name = cfg[2].name
    /\ WasProcessed(1) /\ WasProcessed(2)
    /\ Touched(1, "assembly") /\ Touched(2, "assembly")

\* the number of operations begun for one pair
BeginCount(i, ty) ==
    Cardinality({n \in 1..Len(calls) :
        calls[n].op = "begin" /\ calls[n].g = i /\ calls[n].t = ty})

\* C16: an operation is only ever begun when its phase is the requested one
\* or no phase is requested; and for every visited pair the run has passed,
\* each of download, import, deploy was begun if and only if its phase is
\* the requested one or none is requested: one operation per pair under a
\* restriction, three without.
C16_PhaseGating ==
    /\ \A n \in 1..Len(calls) :
          calls[n].op = "begin" => args.phase \in {calls[n].ph, None}
    /\ \A i \in 1..Len(cfg) : \A k \in 1..Len(CanonicalTypes) :
          (Beyond(i, k) /\ Touched(i, CanonicalTypes[k])) =>
              /\ \A p \in Range(CanonicalPhases) :
                    HasEvent("begin", p, i, CanonicalTypes[k])
                        <=> args.phase \in {p, None}
              /\ BeginCount(i, CanonicalTypes[k])
                    = (IF args.phase = None THEN 3 ELSE 1)

\* C16 witness: under the restriction to import a pair was visited and
\* passed, with its import begun
C16_Witness ==
    /\ pc = "done"
    /\ args.phase = "import"
    /\ \E i \in 1..Len(cfg) : HasEvent("return", "import", i, "models")

\* C17: every download begun has, written when exactly the events before it
\* had happened, a log entry naming the genome, the datatype and the url of
\* the section; every import begun has, written after the importer's
\* construction and before go(), an entry naming the genome and the datatype.
C17_PhaseEntriesBeforeCalls ==
    \A n \in 1..Len(calls) :
        /\ (calls[n].op = "begin" /\ calls[n].ph = "download") =>
              \E m \in 1..Len(log) :
                  log[m] = [kind |-> "downloading", g |-> calls[n].g,
                            name |-> cfg[calls[n].g].name, t |-> calls[n].t,
                            url |-> cfg[calls[n].g][calls[n].t].url,
                            seq |-> n - 1]
        /\ (calls[n].op = "begin" /\ calls[n].ph = "import") =>
              /\ calls[n - 1] = [calls[n] EXCEPT !.op = "construct"]
              /\ \E m \in 1..Len(log) :
                    log[m] = [kind |-> "importing", g |-> calls[n].g,
                              name |-> cfg[calls[n].g].name,
                              t |-> calls[n].t, seq |-> n - 1]

\* C17 witness: a download and an import of one pair have both begun
C17_Witness ==
    \E i \in 1..Len(cfg) :
        /\ HasEvent("begin", "download", i, "orthology")
        /\ HasEvent("begin", "import", i, "orthology")

\* the downloaders constructed for one pair
ConstructCount(i, ty) ==
    Cardinality({n \in 1..Len(calls) :
        calls[n] = [op |-> "construct", ph |-> "download", g |-> i, t |-> ty]})

\* C18: whatever the phase restriction, every event of a pair other than a
\* failure of the downloader comes after the construction of the pair's
\* downloader, a pair never has two downloaders, every visited pair the run
\* has passed has exactly one, and a pair whose source name is unknown never
\* has any event.
C18_DownloaderAlwaysConstructed ==
    /\ \A n \in 1..Len(calls) :
          (calls[n].ph # "download" \/ calls[n].op \in {"begin", "return"}) =>
              \E m \in 1..(n - 1) :
                  calls[m] = [calls[n] EXCEPT !.op = "construct",
                                              !.ph = "download"]
    /\ \A n \in 1..Len(calls) :
          (calls[n].op = "construct" /\ calls[n].ph = "download") =>
              \A m \in 1..(n - 1) : calls[m] # calls[n]
    /\ \A i \in 1..Len(cfg) : \A k \in 1..Len(CanonicalTypes) :
          (Allowed(i, CanonicalTypes[k]) /\ Beyond(i, k)
              /\ ~HasEvent("construct", "download", i, CanonicalTypes[k]))
                => ~Selected(genome_re, cfg[i].name)
    /\ \A i \in 1..Len(cfg) : \A k \in 1..Len(CanonicalTypes) :
          /\ (Allowed(i, CanonicalTypes[k])
              /\ UnknownSource(i, CanonicalTypes[k]))
                => ~Touched(i, CanonicalTypes[k])

\* C18 witness: a run restricted to deploy ended normally with a downloader
\* constructed and a deploy done for the same pair
C18_Witness ==
    /\ pc = "done"
    /\ args.phase = "deploy"
    /\ \E i \in 1..Len(cfg) :
          /\ ConstructCount(i, "assembly") = 1
          /\ HasEvent("return", "deploy", i, "assembly")

\* the genome positions of the Processing and Skipped entries, in log order
RECURSIVE DecisionPositions(_)
DecisionPositions(entries) ==
    IF entries = <<>> THEN <<>>
    ELSE IF Head(entries).kind \in {"Processing", "Skipped"}
         THEN <<Head(entries).g>> \o DecisionPositions(Tail(entries))
         ELSE DecisionPositions(Tail(entries))

\* C19: the Processing and Skipped entries of a run are one per genome
\* decided, in configuration order; in a run that ended normally they are
\* one per genome of the configuration, a genome has one kind of entry only,
\* and "Builder exiting." is written once, after all of them.
C19_OneEntryPerGenome ==
    /\ DecisionPositions(log) = [i \in 1..DecidedCount |-> i]
    /\ \A i \in 1..Len(cfg) : ~(WasProcessed(i) /\ WasSkipped(i))
    /\ pc = "done" =>
          /\ DecidedCount = Len(cfg)
          /\ \A i \in 1..Len(cfg) : WasProcessed(i) \/ WasSkipped(i)
          /\ EndsWithExit
          /\ Cardinality({n \in 1..Len(log) : log[n].kind = "Exiting"}) = 1

\* C19 witness: a run over two genomes ended normally, the first skipped and
\* the second processed
C19_Witness ==
    /\ pc = "done"
    /\ Len(cfg) = 2
    /\ WasSkipped(1) /\ WasProcessed(2)

\* no entry of calls occurs twice: nothing is constructed or invoked twice
\* for one pair
NoRepeatedEvent ==
    \A m, n \in 1..Len(calls) : calls[m] = calls[n] => m = n

\* C20: a run in which nothing raises reaches the end of main; and at the
\* end every genome has been decided exactly once and no collaborator event
\* of any pair has happened twice.
C20_Terminates ==
    /\ <>(pc = "done" \/ exc # None)
    /\ [](NoRepeatedEvent /\ gi <= Len(cfg) + 1)
    /\ [](pc = "done" =>
            /\ exc = None
            /\ gi = Len(cfg) + 1
            /\ Len(DecisionPositions(log)) = Len(cfg)
            /\ \A i \in 1..Len(cfg) :
                  Cardinality({n \in 1..Len(log) :
                      log[n].kind \in {"Processing", "Skipped"}
                      /\ log[n].g = i}) = 1)

\* C20 witness: an unrestricted run over two selected genomes with sections
\* ended normally
C20_Witness ==
    /\ pc = "done" /\ exc = None
    /\ Len(cfg) = 2
    /\ WasProcessed(1) /\ WasProcessed(2)
    /\ args.phase = None /\ args.type = None
    /\ Touched(1, "orthology") /\ Touched(2, "models")

====
